---- MODULE Spec2Model ----
(***************************************************************************)
(* cmake/pthread_clock_compat.h: a header of four forward declarations     *)
(* behind an include guard and an extern "C" wrapper.                      *)
(*                                                                         *)
(* The header holds no function body.  What it does is what the            *)
(* preprocessor and the compiler do with its 32 lines when a translation   *)
(* unit includes it: test and set the guard macro, open and close the      *)
(* extern "C" block under __cplusplus, and enter four prototypes in the    *)
(* translation unit's declaration table.  The model walks the header line  *)
(* by line, then lets the translation unit reference the declared          *)
(* functions, links it against a platform thread library and performs      *)
(* calls.  The platform library is an external collaborator: the status a  *)
(* platform operation produces and the state it leaves its object in are   *)
(* chosen nondeterministically, because no line of the header decides      *)
(* them.                                                                   *)
(***************************************************************************)
EXTENDS Naturals, Sequences, FiniteSets

VARIABLES
    lang,        \* "C" or "C++": whether the compiler predefines __cplusplus
    exports,     \* symbols the platform thread library provides to the linker
    macros,      \* macro names defined so far in the translation unit
    sysIncluded, \* system headers the translation unit has pulled in
    includes,    \* how many times the translation unit has included the header
    pc,          \* header line being processed; 0 outside the header
    condStack,   \* open #if groups, TRUE where the group's lines are kept
    externDepth, \* open extern "C" blocks
    cur,         \* prototype being read, NoDecl between prototypes
    decls,       \* prototypes declared so far, in order
    refs,        \* linker symbols the translation unit refers to
    phase,       \* "compile", "linked" or "linkerror"
    callee,      \* function of the last call, "" before any call
    produced,    \* status the platform operation produced for the last call
    received,    \* status the caller received from the last call
    platformObj, \* object state the platform operation left
    obj          \* object state the caller finds after the call

vars == <<lang, exports, macros, sysIncluded, includes, pc, condStack,
          externDepth, cur, decls, refs, phase, callee, produced, received,
          platformObj, obj>>

compileVars == <<macros, sysIncluded, includes, pc, condStack, externDepth,
                 cur, decls>>

callVars == <<callee, produced, received, platformObj, obj>>

(* Bound of the model: inclusions of the header per translation unit. *)
MaxIncludes == 2

(* The header's last line. *)
HeaderLines == 32

GuardName == "CUDA_SAMPLES_PTHREAD_CLOCK_COMPAT_H_"

CplusplusMacro == "__cplusplus"

NoDecl == [name |-> "", ret |-> "", params |-> <<>>, linkage |-> ""]

L(kind, name, arg) == [kind |-> kind, name |-> name, arg |-> arg]

(* The header, line by line. *)
HeaderLine(n) ==
    CASE n = 1  -> L("ifndef", GuardName, "")
      [] n = 2  -> L("define", GuardName, "")
      [] n = 4  -> L("include", "pthread.h", "")
      [] n = 5  -> L("include", "time.h", "")
      [] n = 7  -> L("ifdef", CplusplusMacro, "")
      [] n = 8  -> L("extern_open", "", "")
      [] n = 9  -> L("endif", "", "")
      [] n = 11 -> L("decl_open", "pthread_cond_clockwait", "pthread_cond_t *")
      [] n = 12 -> L("decl_param", "", "pthread_mutex_t *")
      [] n = 13 -> L("decl_param", "", "clockid_t")
      [] n = 14 -> L("decl_close", "", "const struct timespec *")
      [] n = 16 -> L("decl_open", "pthread_mutex_clocklock", "pthread_mutex_t *")
      [] n = 17 -> L("decl_param", "", "clockid_t")
      [] n = 18 -> L("decl_close", "", "const struct timespec *")
      [] n = 20 -> L("decl_open", "pthread_rwlock_clockrdlock", "pthread_rwlock_t *")
      [] n = 21 -> L("decl_param", "", "clockid_t")
      [] n = 22 -> L("decl_close", "", "const struct timespec *")
      [] n = 24 -> L("decl_open", "pthread_rwlock_clockwrlock", "pthread_rwlock_t *")
      [] n = 25 -> L("decl_param", "", "clockid_t")
      [] n = 26 -> L("decl_close", "", "const struct timespec *")
      [] n = 28 -> L("ifdef", CplusplusMacro, "")
      [] n = 29 -> L("extern_close", "", "")
      [] n = 30 -> L("endif", "", "")
      [] n = 32 -> L("endif", "", "")
      [] OTHER  -> L("blank", "", "")

(* The names the header's prototypes give. *)
DeclaredNames ==
    {HeaderLine(n).name : n \in {m \in 1..HeaderLines : HeaderLine(m).kind = "decl_open"}}

(* Status codes of the platform operations (section 7 of the spec names *)
(* them); their numeric values are the platform's.                      *)
Statuses == {"OK", "ETIMEDOUT", "EINVAL", "EDEADLK"}

(* States a platform operation may leave its object in. *)
ObjStates == {"free", "held"}

RECURSIVE AllTrue(_)
AllTrue(s) == IF s = <<>> THEN TRUE ELSE Head(s) /\ AllTrue(Tail(s))

(* A line is kept when every enclosing #if group is kept. *)
Active == AllTrue(condStack)

Line == HeaderLine(pc)

InHeader == phase = "compile" /\ pc \in 1..HeaderLines

Pop(s) == SubSeq(s, 1, Len(s) - 1)

(* #ifndef M keeps its group when M is not defined. *)
IfndefHolds_AsIfdef(m) == m \in macros

IfndefHolds(m) == m \notin macros

(* #ifdef M keeps its group when M is defined. *)
IfdefHolds(m) == m \in macros

(* Language linkage of a prototype read at the current place: C in a C *)
(* translation unit and inside an extern "C" block, C++ otherwise.      *)
Linkage_NoExternC == IF lang = "C" THEN "C" ELSE "C++"

Linkage == IF lang = "C" \/ externDepth > 0 THEN "C" ELSE "C++"

(* The linker symbol of a prototype: its name under C linkage, a mangled *)
(* name made of the name and the parameter types under C++ linkage.      *)
SymbolName(d) == IF d.linkage = "C" THEN <<d.name>> ELSE <<"_Z", d.name, d.params>>

DeclsOf(f) == {i \in 1..Len(decls) : decls[i].name = f}

Init ==
    /\ lang \in {"C", "C++"}
    /\ exports \in SUBSET {<<f>> : f \in DeclaredNames}
    /\ macros = IF lang = "C++" THEN {CplusplusMacro} ELSE {}
    /\ sysIncluded = {}
    /\ includes = 0
    /\ pc = 0
    /\ condStack = <<>>
    /\ externDepth = 0
    /\ cur = NoDecl
    /\ decls = <<>>
    /\ refs = {}
    /\ phase = "compile"
    /\ callee = ""
    /\ produced = "OK"
    /\ received = "OK"
    /\ platformObj = "free"
    /\ obj = "free"

(* #include "pthread_clock_compat.h" in the translation unit. *)
IncludeHeader ==
    /\ phase = "compile"
    /\ pc = 0
    /\ includes < MaxIncludes
    /\ includes' = includes + 1
    /\ pc' = 1
    /\ UNCHANGED <<lang, exports, macros, sysIncluded, condStack, externDepth,
                   cur, decls, refs, phase>>
    /\ UNCHANGED callVars

(* #ifndef CUDA_SAMPLES_PTHREAD_CLOCK_COMPAT_H_ *)
Ifndef ==
    /\ InHeader
    /\ Line.kind = "ifndef"
    /\ condStack' = Append(condStack, Active /\ IfndefHolds(Line.name))
    /\ pc' = pc + 1
    /\ UNCHANGED <<lang, exports, macros, sysIncluded, includes, externDepth,
                   cur, decls, refs, phase>>
    /\ UNCHANGED callVars

(* #ifdef __cplusplus *)
Ifdef ==
    /\ InHeader
    /\ Line.kind = "ifdef"
    /\ condStack' = Append(condStack, Active /\ IfdefHolds(Line.name))
    /\ pc' = pc + 1
    /\ UNCHANGED <<lang, exports, macros, sysIncluded, includes, externDepth,
                   cur, decls, refs, phase>>
    /\ UNCHANGED callVars

(* #endif *)
Endif ==
    /\ InHeader
    /\ Line.kind = "endif"
    /\ condStack # <<>>
    /\ condStack' = Pop(condStack)
    /\ pc' = pc + 1
    /\ UNCHANGED <<lang, exports, macros, sysIncluded, includes, externDepth,
                   cur, decls, refs, phase>>
    /\ UNCHANGED callVars

(* #define CUDA_SAMPLES_PTHREAD_CLOCK_COMPAT_H_ *)
Define ==
    /\ InHeader
    /\ Line.kind = "define"
    /\ macros' = IF Active THEN macros \cup {Line.name} ELSE macros
    /\ pc' = pc + 1
    /\ UNCHANGED <<lang, exports, sysIncluded, includes, condStack, externDepth,
                   cur, decls, refs, phase>>
    /\ UNCHANGED callVars

(* #include <pthread.h>, #include <time.h> *)
IncludeSystem ==
    /\ InHeader
    /\ Line.kind = "include"
    /\ sysIncluded' = IF Active THEN sysIncluded \cup {Line.name} ELSE sysIncluded
    /\ pc' = pc + 1
    /\ UNCHANGED <<lang, exports, macros, includes, condStack, externDepth,
                   cur, decls, refs, phase>>
    /\ UNCHANGED callVars

(* extern "C" { *)
ExternOpen ==
    /\ InHeader
    /\ Line.kind = "extern_open"
    /\ externDepth' = IF Active THEN externDepth + 1 ELSE externDepth
    /\ pc' = pc + 1
    /\ UNCHANGED <<lang, exports, macros, sysIncluded, includes, condStack,
                   cur, decls, refs, phase>>
    /\ UNCHANGED callVars

(* } *)
ExternClose ==
    /\ InHeader
    /\ Line.kind = "extern_close"
    /\ Active => externDepth > 0
    /\ externDepth' = IF Active THEN externDepth - 1 ELSE externDepth
    /\ pc' = pc + 1
    /\ UNCHANGED <<lang, exports, macros, sysIncluded, includes, condStack,
                   cur, decls, refs, phase>>
    /\ UNCHANGED callVars

(* int <name>(<first parameter>, *)
DeclOpen ==
    /\ InHeader
    /\ Line.kind = "decl_open"
    /\ cur' = IF Active
              THEN [name |-> Line.name, ret |-> "int", params |-> <<Line.arg>>,
                    linkage |-> Linkage]
              ELSE cur
    /\ pc' = pc + 1
    /\ UNCHANGED <<lang, exports, macros, sysIncluded, includes, condStack,
                   externDepth, decls, refs, phase>>
    /\ UNCHANGED callVars

(* <parameter>, *)
DeclParam ==
    /\ InHeader
    /\ Line.kind = "decl_param"
    /\ cur' = IF Active THEN [cur EXCEPT !.params = Append(@, Line.arg)] ELSE cur
    /\ pc' = pc + 1
    /\ UNCHANGED <<lang, exports, macros, sysIncluded, includes, condStack,
                   externDepth, decls, refs, phase>>
    /\ UNCHANGED callVars

(* <last parameter>); *)
DeclClose ==
    /\ InHeader
    /\ Line.kind = "decl_close"
    /\ decls' = IF Active
                THEN Append(decls, [cur EXCEPT !.params = Append(@, Line.arg)])
                ELSE decls
    /\ cur' = IF Active THEN NoDecl ELSE cur
    /\ pc' = pc + 1
    /\ UNCHANGED <<lang, exports, macros, sysIncluded, includes, condStack,
                   externDepth, refs, phase>>
    /\ UNCHANGED callVars

(* An empty line. *)
Blank ==
    /\ InHeader
    /\ Line.kind = "blank"
    /\ pc' = pc + 1
    /\ UNCHANGED <<lang, exports, macros, sysIncluded, includes, condStack,
                   externDepth, cur, decls, refs, phase>>
    /\ UNCHANGED callVars

(* The end of the header: back to the including translation unit. *)
EndOfHeader ==
    /\ phase = "compile"
    /\ pc = HeaderLines + 1
    /\ pc' = 0
    /\ UNCHANGED <<lang, exports, macros, sysIncluded, includes, condStack,
                   externDepth, cur, decls, refs, phase>>
    /\ UNCHANGED callVars

(* The translation unit's code names a declared function: the identifier *)
(* is macro-expanded first, and otherwise refers to the symbol of its    *)
(* prototype.                                                            *)
Reference ==
    /\ phase = "compile"
    /\ pc = 0
    /\ \E f \in DeclaredNames :
         /\ f \notin macros
         /\ DeclsOf(f) # {}
         /\ refs' = refs \cup {SymbolName(decls[i]) : i \in DeclsOf(f)}
    /\ UNCHANGED <<lang, exports>>
    /\ UNCHANGED compileVars
    /\ UNCHANGED phase
    /\ UNCHANGED callVars

(* The linker resolves the referenced symbols against the platform library. *)
Link ==
    /\ phase = "compile"
    /\ pc = 0
    /\ includes > 0
    /\ phase' = IF refs \subseteq exports THEN "linked" ELSE "linkerror"
    /\ UNCHANGED <<lang, exports, refs>>
    /\ UNCHANGED compileVars
    /\ UNCHANGED callVars

(* A call of a referenced function in the linked program runs the         *)
(* platform operation bound to the symbol; the platform chooses the       *)
(* status and the state it leaves the object in, and the caller gets them *)
(* as they are: no line of the header stands between the two.             *)
Call ==
    /\ phase = "linked"
    /\ \E f \in DeclaredNames, r \in Statuses, s \in ObjStates :
         /\ \E i \in DeclsOf(f) : SymbolName(decls[i]) \in refs
         /\ callee' = f
         /\ produced' = r
         /\ platformObj' = s
         /\ received' = r
         /\ obj' = s
    /\ UNCHANGED <<lang, exports, refs, phase>>
    /\ UNCHANGED compileVars

Next ==
    \/ IncludeHeader
    \/ Ifndef
    \/ Ifdef
    \/ Endif
    \/ Define
    \/ IncludeSystem
    \/ ExternOpen
    \/ ExternClose
    \/ DeclOpen
    \/ DeclParam
    \/ DeclClose
    \/ Blank
    \/ EndOfHeader
    \/ Reference
    \/ Link
    \/ Call

Spec == Init /\ [][Next]_vars

(***************************************************************************)
(* Properties                                                              *)
(***************************************************************************)

(* The header has been read to its end at least once. *)
HeaderRead == includes > 0 /\ (phase # "compile" \/ pc = 0)

(* The platform library provides a symbol for each of the four names. *)
MatchingSymbols ==
    {<<"pthread_cond_clockwait">>, <<"pthread_mutex_clocklock">>,
     <<"pthread_rwlock_clockrdlock">>, <<"pthread_rwlock_clockwrlock">>}

ClockTail == <<"clockid_t", "const struct timespec *">>

(* The parameter list the platform's clock-aware extension of that name takes. *)
PlatformParams(f) ==
    CASE f = "pthread_cond_clockwait"     -> <<"pthread_cond_t *", "pthread_mutex_t *">> \o ClockTail
      [] f = "pthread_mutex_clocklock"    -> <<"pthread_mutex_t *">> \o ClockTail
      [] f = "pthread_rwlock_clockrdlock" -> <<"pthread_rwlock_t *">> \o ClockTail
      [] f = "pthread_rwlock_clockwrlock" -> <<"pthread_rwlock_t *">> \o ClockTail
      [] OTHER -> <<>>

C8_DeclaresAndLinks ==
    HeaderRead =>
        /\ Len(decls) = 4
        /\ {<<decls[i].name>> : i \in 1..Len(decls)} = MatchingSymbols
        /\ \A i \in 1..Len(decls) :
             /\ decls[i].ret = "int"
             /\ decls[i].linkage = "C"
             /\ decls[i].params = PlatformParams(decls[i].name)
        /\ condStack = <<>>
        /\ externDepth = 0
        /\ cur = NoDecl
        /\ {"pthread.h", "time.h"} \subseteq sysIncluded
        /\ (MatchingSymbols \subseteq exports => phase # "linkerror")

(* A C++ translation unit included the header twice, used all four *)
(* functions and linked.                                            *)
C8_Witness ==
    /\ lang = "C++"
    /\ includes = 2
    /\ refs = MatchingSymbols
    /\ phase = "linked"

====
